---- MODULE Spec2Model ----
(***************************************************************************)
(* JuiceBox Pro (src/juicebox_pro.py.py): the option-income scanner.       *)
(*                                                                         *)
(* Money is counted in mills (1/1000 dollar), so that the half-cent mid    *)
(* prices of mid_price and the two-decimal rounding of the result fields   *)
(* are exact integer computations.  Floating-point representation error   *)
(* is outside the model: every amount is the exact decimal value.          *)
(*                                                                         *)
(* A Python None and a pandas NaN are the empty tuple <<>>; a present      *)
(* value v is the one-element tuple <<v>>.                                 *)
(***************************************************************************)
EXTENDS Integers, Sequences, FiniteSets, TLC

VARIABLES
    cfg,          \* the sidebar globals read by the scanner (module globals)
    market,       \* what the quote/chain provider answers, per ticker
    tickers,      \* the watchlist handed to scan_all
    script,       \* position of the script run: "idle" or inside "scan_all"
    task,         \* one frame of scan(t) per position of the ticker list
    results,      \* scan_all's local list results
    diags,        \* scan_all's local list diags
    returned,     \* TRUE once scan_all has returned in the latest run
    session,      \* st.session_state: results_master, diags_master
    price_cache,  \* st.cache_data of get_live_price, per ticker
    app,          \* the script the server runs: juicebox_pro or income_bot
    bot,          \* income_bot: sidebar globals, provider data, Deep Scanner loop
    deep_scan,    \* income_bot: st.session_state.deep_scan
    pop           \* a call of calculate_pop: its arguments and what it returned

\* the state of the other script, src/income_bot.py
income_bot_vars == <<bot, deep_scan, pop>>

vars == <<cfg, market, tickers, script, task, results, diags, returned, session,
          price_cache, app, bot, deep_scan, pop>>

-----------------------------------------------------------------------------
(* Values *)

None == <<>>
Some(v) == <<v>>
IsNone(x) == x = <<>>
Val(x) == x[1]

\* d dollars and m mills
USD(d, m) == d * 1000 + m

Max(a, b) == IF a >= b THEN a ELSE b

\* np.ceil(n / d) for d > 0
Ceil(n, d) == -((-n) \div d)

\* round(n / d) to the nearest integer, exact halves to the even neighbour
\* (Python's round), for n >= 0 and d > 0
RoundHalfEven(n, d) ==
    LET q == n \div d
        r == n % d
    IN  IF 2 * r < d THEN q
        ELSE IF 2 * r > d THEN q + 1
        ELSE IF q % 2 = 0 THEN q ELSE q + 1

\* round(x, 2) of a dollar amount x held in mills: the nearest cent, in mills
Round2(x) == RoundHalfEven(x, 10) * 10

\* round(x, 0) of a dollar amount x held in mills: the nearest dollar, in mills
Round0(x) == RoundHalfEven(x, 1000) * 1000

-----------------------------------------------------------------------------
(* Section 2 of the source: data helpers *)

\* mid_price(row): the mid of bid and ask when both are present and ask > 0,
\* else lastPrice, else 0
mid_price(row) ==
    IF ~IsNone(row.bid) /\ ~IsNone(row.ask) /\ Val(row.ask) > 0
    THEN (Val(row.bid) + Val(row.ask)) \div 2
    ELSE IF ~IsNone(row.lastPrice) THEN Val(row.lastPrice) ELSE 0

safe_int(x, default) == IF IsNone(x) THEN default ELSE Val(x)

safe_float(x, default) == IF IsNone(x) THEN default ELSE Val(x)

\* grade_from_return(ret_pct), ret_pct = num / den percent
grade_from_return(num, den) ==
    IF num >= 3 * den THEN "a"
    ELSE IF 2 * num >= 3 * den THEN "b"
    ELSE "c"

\* get_live_price(ticker): regularMarketPrice when present and non-zero, else
\* the last close of the intraday history; any exception gives None
get_live_price(m) ==
    IF m.info.kind = "raise" THEN None
    ELSE IF ~IsNone(m.info.regularMarketPrice) /\ Val(m.info.regularMarketPrice) # 0
         THEN m.info.regularMarketPrice
    ELSE m.hist_close

-----------------------------------------------------------------------------
(* Section 4 of the source: scanner logic *)

MODE_STANDARD == "Covered Call (Standard OTM)"
MODE_DEEP_ITM == "Covered Call (Deep ITM)"
MODE_CLOSEST == "Covered Call (Closest OTM / 'ATM')"
MODE_CSP_OTM == "Cash Secured Put (OTM/ATM)"
MODE_CSP_ITM == "Cash Secured Put (ITM)"

Modes == {MODE_STANDARD, MODE_DEEP_ITM, MODE_CLOSEST, MODE_CSP_OTM, MODE_CSP_ITM}

\* the extrinsic value (0.05 dollars per share) an ITM contract must exceed
TRAP_EXTRINSIC == 50

\* ThreadPoolExecutor(max_workers=10)
max_workers == 10

\* _mode_flags(): reads the global mode
_mode_flags ==
    [is_put |-> cfg.mode \in {MODE_CSP_OTM, MODE_CSP_ITM},
     is_deep_itm_call |-> cfg.mode = MODE_DEEP_ITM,
     is_standard_cc |-> cfg.mode = MODE_STANDARD,
     is_closest_otm |-> cfg.mode = MODE_CLOSEST,
     is_itm_put |-> cfg.mode = MODE_CSP_ITM]

NoFlags ==
    [is_put |-> FALSE, is_deep_itm_call |-> FALSE, is_standard_cc |-> FALSE,
     is_closest_otm |-> FALSE, is_itm_put |-> FALSE]

\* the cash-collateral branch of _collateral_ok
put_collateral_ok(total) ==
    total <= (IF IsNone(cfg.cash_avail) THEN 0 ELSE Val(cfg.cash_avail))

\* call_collateral_ok comparing the total with the account value whatever
\* the shares owned
call_collateral_ok_acct(needed, total) == total <= cfg.acct

\* the shares-collateral branch of _collateral_ok
call_collateral_ok(needed, total) ==
    IF cfg.auto_detect /\ cfg.shares_owned > 0
    THEN needed <= cfg.shares_owned \div 100
    ELSE total <= cfg.acct

\* _collateral_ok(is_put, needed, strike, price): reads the globals cash_avail,
\* auto_detect, shares_owned and acct
_collateral_ok(is_put, needed, strike, price) ==
    IF is_put
    THEN LET coll_per == strike * 100
             total == needed * coll_per
         IN  [ok |-> put_collateral_ok(total), coll_per |-> coll_per, total |-> total]
    ELSE LET coll_per == price * 100
             total == needed * coll_per
         IN  [ok |-> call_collateral_ok(needed, total), coll_per |-> coll_per,
              total |-> total]

\* deep_itm_admits without the cushion: any strike at or below the price
deep_itm_admits_no_cushion(strike, price) ==
    ~IsNone(strike) /\ Val(strike) <= price

\* df[df["strike"] <= price * (1.0 - cushion_val / 100.0)]; a NaN strike
\* compares False
deep_itm_admits(strike, price) ==
    ~IsNone(strike) /\ Val(strike) * 100 <= price * (100 - cfg.cushion_val)

\* df[df["strike"] > price]
otm_call_admits(strike, price) ==
    ~IsNone(strike) /\ Val(strike) > price

\* df[df["strike"] >= price * (1.0 + cushion_val / 100.0)]
itm_put_admits(strike, price) ==
    ~IsNone(strike) /\ Val(strike) * 100 >= price * (100 + cfg.cushion_val)

\* df[df["strike"] <= price]
otm_put_admits(strike, price) ==
    ~IsNone(strike) /\ Val(strike) <= price

\* df.sort_values("strike").head(1): the row of the lowest strike (the first
\* such row of df when two rows share it)
sort_head1(df) ==
    IF df = <<>> THEN <<>>
    ELSE LET lowest(i) == \A j \in 1..Len(df) : Val(df[i].strike) <= Val(df[j].strike)
             first == CHOOSE i \in 1..Len(df) :
                          lowest(i) /\ \A j \in 1..(i - 1) : ~lowest(j)
         IN  <<df[first]>>

\* closest_otm_filter without the sort: the first row above the price in the
\* order of the chain
closest_otm_filter_unsorted(df, price) ==
    LET above(row) == otm_call_admits(row.strike, price)
        kept == SelectSeq(df, above)
    IN  IF kept = <<>> THEN <<>> ELSE <<Head(kept)>>

\* the rows the ATM mode keeps of one chain
closest_otm_filter(df, price) ==
    LET above(row) == otm_call_admits(row.strike, price)
    IN  sort_head1(SelectSeq(df, above))

\* strategy_filter with the Standard OTM mode keeping only the nearest strike,
\* like the ATM mode
strategy_filter_nearest(df, price, flags) ==
    LET deep(row) == deep_itm_admits(row.strike, price)
        itm_put(row) == itm_put_admits(row.strike, price)
        otm_put(row) == otm_put_admits(row.strike, price)
    IN  IF ~flags.is_put
        THEN IF flags.is_deep_itm_call THEN SelectSeq(df, deep)
             ELSE IF flags.is_standard_cc \/ flags.is_closest_otm
             THEN closest_otm_filter(df, price)
             ELSE df
        ELSE IF flags.is_itm_put THEN SelectSeq(df, itm_put)
             ELSE SelectSeq(df, otm_put)

\* "Strategy filters" of scan: the rows of one chain the mode admits
strategy_filter(df, price, flags) ==
    LET deep(row) == deep_itm_admits(row.strike, price)
        above(row) == otm_call_admits(row.strike, price)
        itm_put(row) == itm_put_admits(row.strike, price)
        otm_put(row) == otm_put_admits(row.strike, price)
    IN  IF ~flags.is_put
        THEN IF flags.is_deep_itm_call THEN SelectSeq(df, deep)
             ELSE IF flags.is_standard_cc THEN SelectSeq(df, above)
             ELSE IF flags.is_closest_otm THEN closest_otm_filter(df, price)
             ELSE df
        ELSE IF flags.is_itm_put THEN SelectSeq(df, itm_put)
             ELSE SelectSeq(df, otm_put)

\* intrinsic_of with the call formula for both option types
intrinsic_of_call(is_put, price, strike) == Max(0, price - strike)

\* intrinsic value per share
intrinsic_of(is_put, price, strike) ==
    IF ~is_put THEN Max(0, price - strike) ELSE Max(0, strike - price)

\* extrinsic value per share
extrinsic_of(total_prem, intrinsic) == Max(0, total_prem - intrinsic)

\* is_trap with < for <=: an extrinsic value of exactly 0.05 passes
is_trap_strict(flags, intrinsic, extrinsic) ==
    ~flags.is_closest_otm /\ intrinsic > 0 /\ extrinsic < TRAP_EXTRINSIC

\* the near-zero extrinsic ITM trap of the "Juice logic"
is_trap(flags, intrinsic, extrinsic) ==
    ~flags.is_closest_otm /\ intrinsic > 0 /\ extrinsic <= TRAP_EXTRINSIC

\* juice_of counting the full premium whatever the intrinsic value
juice_of_full_premium(flags, total_prem, intrinsic, extrinsic) == total_prem

\* juice_val of the "Juice logic"
juice_of(flags, total_prem, intrinsic, extrinsic) ==
    IF flags.is_closest_otm THEN total_prem
    ELSE IF intrinsic > 0 THEN extrinsic ELSE total_prem

\* contracts_needed with one contract to spare
contracts_needed_spare(juice_con) ==
    IF cfg.goal_amt > 0 THEN Ceil(cfg.goal_amt, juice_con) + 1 ELSE 1

\* contracts_needed rounding down instead of up
contracts_needed_floor(juice_con) ==
    IF cfg.goal_amt > 0 THEN Max(1, cfg.goal_amt \div juice_con) ELSE 1

\* needed: contracts needed to hit goal_amt (reads the global goal_amt)
contracts_needed(juice_con) ==
    IF cfg.goal_amt > 0 THEN Max(1, Ceil(cfg.goal_amt, juice_con)) ELSE 1

\* The body of "for _, row in df.iterrows()": the local variables of the
\* evaluation of one row; killed names the check that hit continue ("" when
\* the row reaches the construction of res)
evaluate(row, price, flags) ==
    LET strike == safe_float(row.strike, 0)
        total_prem == mid_price(row)
        oi == safe_int(row.openInterest, 0)
        intrinsic == intrinsic_of(flags.is_put, price, strike)
        extrinsic == extrinsic_of(total_prem, intrinsic)
        juice_val == juice_of(flags, total_prem, intrinsic, extrinsic)
        juice_con == juice_val * 100
        coll_base == IF flags.is_put THEN strike * 100 ELSE price * 100
        needed == contracts_needed(juice_con)
        coll == _collateral_ok(flags.is_put, needed, strike, price)
        early == IF strike <= 0 THEN "strike"
                 ELSE IF oi < cfg.min_oi THEN "oi"
                 ELSE IF total_prem <= 0 THEN "premium"
                 ELSE ""
        late == IF is_trap(flags, intrinsic, extrinsic) THEN "trap"
                ELSE IF juice_con <= 0 THEN "juice"
                ELSE IF coll_base <= 0 THEN "coll_base"
                ELSE IF ~coll.ok THEN "collateral"
                ELSE ""
    IN  IF early # ""
        THEN [killed |-> early, strike |-> strike, total_prem |-> total_prem, oi |-> oi]
        ELSE IF late \in {"trap", "juice", "coll_base"}
        THEN [killed |-> late, strike |-> strike, total_prem |-> total_prem, oi |-> oi,
              intrinsic |-> intrinsic, extrinsic |-> extrinsic]
        ELSE [killed |-> late, strike |-> strike, total_prem |-> total_prem, oi |-> oi,
              intrinsic |-> intrinsic, extrinsic |-> extrinsic,
              juice_val |-> juice_val, juice_con |-> juice_con,
              coll_base |-> coll_base, needed |-> needed,
              coll_per |-> coll.coll_per, coll_total |-> coll.total]

\* res of scan: the record built from the locals of an accepted row
make_res(t, q_type, price, exp, exp_dte, ev) ==
    [Ticker |-> [RawT |-> t, goal_met_icon |-> ev.juice_con >= cfg.goal_amt],
     RawT |-> t,
     Mode |-> cfg.mode,
     GradeKey |-> grade_from_return(ev.juice_con * 100, ev.coll_base),
     Price |-> Round2(price),
     Strike |-> Round2(ev.strike),
     Expiration |-> exp,
     DTE |-> exp_dte,
     OI |-> ev.oi,
     Type |-> q_type,
     Extrinsic |-> Round2(ev.extrinsic * 100),
     Intrinsic |-> Round2(ev.intrinsic * 100),
     TotalPrem |-> Round2(ev.total_prem * 100),
     TotalReturnPct |-> RoundHalfEven(ev.juice_con * 100 * 100, ev.coll_base),
     Contracts |-> ev.needed,
     TotalJuice |-> Round2(ev.juice_con * ev.needed),
     Collateral |-> Round0(ev.coll_total)]

\* replaces_best with >= for >: an equal return replaces best
replaces_best_or_equal(best, res) ==
    IsNone(best) \/ res.TotalReturnPct >= Val(best).TotalReturnPct

\* "if (best is None) or (res[...] > best[...])": does res replace best
replaces_best(best, res) ==
    IsNone(best) \/ res.TotalReturnPct > Val(best).TotalReturnPct

\* The row loop of one expiration over the filtered chain df, on the frame f
\* of scan: best is updated, and every evaluated row is appended to f.evals
RECURSIVE scan_rows(_, _, _, _)
scan_rows(f, exp, exp_dte, df) ==
    IF df = <<>> THEN f
    ELSE LET ev == evaluate(Head(df), Val(f.price), f.flags)
             acc == ev.killed = ""
             res == make_res(f.t, f.q_type, Val(f.price), exp, exp_dte, ev)
             rec == [exp |-> exp, ev |-> ev, res |-> IF acc THEN Some(res) ELSE None]
             take == acc /\ replaces_best(f.best, res)
             f2 == [f EXCEPT !.evals = Append(@, rec),
                             !.best = IF take THEN Some(res) ELSE @,
                             !.best_diag = IF take
                                           THEN Some([Ticker |-> f.t, KilledBy |-> "",
                                                      Detail |-> ""])
                                           ELSE @]
         IN  scan_rows(f2, exp, exp_dte, Tail(df))

-----------------------------------------------------------------------------
(* scan(t), one step per call of the quote/chain provider *)

\* the frame of scan before a worker picks the task up.  calls lists the
\* calls scan has made for quotes and chains, in order; price_src tells where
\* get_live_price took its answer from ("" before the call); globals_read
\* names the module globals the body of scan has read so far
QueuedFrame(t) ==
    [pc |-> "queued", t |-> t, q_type |-> "", price |-> None, price_src |-> "",
     opts |-> <<>>, k |-> 0, flags |-> NoFlags, best |-> None, best_diag |-> None,
     evals |-> <<>>, calls |-> <<>>, globals_read |-> {}, ret |-> None]

\* "return None, diag" with diag["KilledBy"] and diag["Detail"] set
fail(f, killed_by, detail) ==
    [f EXCEPT !.pc = "returned",
              !.ret = Some([r |-> None,
                            d |-> Some([Ticker |-> f.t, KilledBy |-> killed_by,
                                        Detail |-> detail])])]

Running == {i \in DOMAIN task : task[i].pc \notin {"queued", "returned"}}

\* info.get("quoteType", "EQUITY") on info = tk.info or {} (an exception
\* inside tk.info leaves info = {})
quote_type(m) ==
    IF m.info.kind = "raise" \/ IsNone(m.info.quoteType) THEN "EQUITY"
    ELSE Val(m.info.quoteType)

\* safe_float(info.get("trailingEps"), default=-1.0)
trailing_eps(m) ==
    IF m.info.kind = "raise" THEN -1 ELSE safe_float(m.info.trailingEps, -1)

\* info.get("recommendationKey")
recommendation(m) ==
    IF m.info.kind = "raise" THEN None ELSE m.info.recommendationKey

\* The frame after the quote-type and fundamentals filters
after_info(f, m) ==
    LET q_type == quote_type(m)
        eps == trailing_eps(m)
        rec == recommendation(m)
        e == [f EXCEPT !.q_type = q_type, !.calls = Append(@, "tk.info"),
                       !.globals_read = @ \cup {"etf_only"}]
        g == [e EXCEPT !.globals_read = @ \cup {"f_sound"}]
    IN  IF cfg.etf_only /\ q_type # "ETF"
        THEN fail(e, "ETF Only", "quoteType=" \o q_type)
        ELSE IF cfg.f_sound /\ eps <= 0
        THEN fail(g, "Fundamentals", "trailingEps")
        ELSE IF cfg.f_sound /\ rec \notin {Some("buy"), Some("strong_buy"), Some("hold")}
        THEN fail(g, "Fundamentals", "recommendationKey")
        ELSE [g EXCEPT !.pc = "price"]

\* A worker picks the task up: diag is created, tk.info is fetched and the
\* ETF and fundamentals filters are applied
ScanInfo(i) ==
    /\ script = "scan_all"
    /\ task[i].pc = "queued"
    /\ Cardinality(Running) < max_workers
    /\ task' = [task EXCEPT ![i] = after_info(@, market[@.t])]
    /\ UNCHANGED <<cfg, market, tickers, script, results, diags, returned, session>>
    /\ UNCHANGED <<price_cache, app, income_bot_vars>>

\* after_price without the check of the price range
after_price_any_range(f, price) ==
    LET g == [f EXCEPT !.price = price, !.calls = Append(@, "get_live_price")]
    IN  IF IsNone(price) \/ Val(price) = 0
        THEN fail(g, "No Price", "live price unavailable")
        ELSE [g EXCEPT !.pc = "options"]

\* The frame after the price checks on price, the answer of get_live_price
after_price(f, price) ==
    LET g == [f EXCEPT !.price = price, !.calls = Append(@, "get_live_price")]
    IN  IF IsNone(price) \/ Val(price) = 0
        THEN fail(g, "No Price", "live price unavailable")
        ELSE IF ~(cfg.price_range[1] * 1000 <= Val(price)
                  /\ Val(price) <= cfg.price_range[2] * 1000)
        THEN fail([g EXCEPT !.globals_read = @ \cup {"price_range"}],
                  "Price Range", "price")
        ELSE [g EXCEPT !.globals_read = @ \cup {"price_range"}, !.pc = "options"]

\* @st.cache_data(ttl=30): is an answer of get_live_price(t) in the cache
cached(t) == ~IsNone(price_cache[t])

\* live_price asking the provider at every call
live_price_fresh(t) == get_live_price(market[t])

\* A call of the decorated get_live_price(t): the cached answer (a price or
\* None) if there is one, else what the body computes from the provider
live_price(t) ==
    IF cached(t) THEN Val(price_cache[t]) ELSE get_live_price(market[t])

\* price = get_live_price(t) and the price checks; the answer is cached
ScanPrice(i) ==
    /\ script = "scan_all"
    /\ task[i].pc = "price"
    /\ LET t == task[i].t
           src == IF cached(t) THEN "cache" ELSE "provider"
       IN  /\ task' = [task EXCEPT ![i] =
                          after_price([@ EXCEPT !.price_src = src], live_price(t))]
           /\ price_cache' = [price_cache EXCEPT ![t] = Some(live_price(t))]
    /\ UNCHANGED <<cfg, market, tickers, script, results, diags, returned, session>>
    /\ UNCHANGED <<app, income_bot_vars>>

\* opts = list(tk.options) if tk.options else [] (an exception gives [])
options_of(m) == IF m.options.kind = "raise" THEN <<>> ELSE m.options.exps

\* The frame after the expiration list is fetched: the mode flags are read
\* and best is initialised
after_options(f, opts) ==
    IF opts = <<>>
    THEN fail([f EXCEPT !.calls = Append(@, "tk.options")],
              "No Options", "tk.options empty")
    ELSE [f EXCEPT !.opts = opts, !.flags = _mode_flags, !.k = 1,
                   !.calls = Append(@, "tk.options"),
                   !.globals_read = @ \cup {"mode"},
                   !.best = None, !.best_diag = None, !.pc = "loop"]

\* tk.options is fetched; a provider call that never returns leaves the
\* worker inside it
ScanOptions(i) ==
    /\ script = "scan_all"
    /\ task[i].pc = "options"
    /\ market[task[i].t].options.kind # "hang"
    /\ task' = [task EXCEPT ![i] = after_options(@, options_of(market[@.t]))]
    /\ UNCHANGED <<cfg, market, tickers, script, results, diags, returned, session>>
    /\ UNCHANGED <<price_cache, app, income_bot_vars>>

\* scan with its outer handler removed: the exception leaves scan and is
\* raised again by list(ex.map(...)) in scan_all
outer_except_missing(f, detail) == [f EXCEPT !.pc = "raised"]

\* "except Exception as e" of scan: return None, diag with KilledBy
\* "Exception"
outer_except(f, detail) == fail(f, "Exception", detail)

\* the module globals the strategy filter of the mode reads
globals_of_filter(flags) ==
    IF flags.is_deep_itm_call \/ flags.is_itm_put THEN {"cushion_val"} ELSE {}

\* the module globals _collateral_ok reads ("auto_detect and shares_owned >
\* 0" reads shares_owned only when auto_detect is on)
globals_of_collateral(is_put) ==
    IF is_put THEN {"cash_avail"}
    ELSE {"auto_detect"}
         \cup (IF cfg.auto_detect THEN {"shares_owned"} ELSE {})
         \cup (IF cfg.auto_detect /\ cfg.shares_owned > 0 THEN {} ELSE {"acct"})

\* the module globals the evaluation ev of one row has read
globals_of_row(ev, flags) ==
    IF ev.killed = "strike" THEN {}
    ELSE IF ev.killed \in {"oi", "premium", "trap", "juice", "coll_base"}
    THEN {"min_oi"}
    ELSE {"min_oi", "goal_amt"}
         \cup globals_of_collateral(flags.is_put)
         \cup (IF ev.killed = "" THEN {"mode"} \cup globals_of_filter(flags) ELSE {})

\* One iteration of "for exp in opts" on the expiration e: the date is
\* parsed, the DTE window checked, the chain fetched, filtered and evaluated.
\* A chain frame without its strike column raises inside the filter, which
\* only the outer handler of scan catches.
after_expiration(f, e) ==
    LET skip == [f EXCEPT !.k = @ + 1]
        out == [skip EXCEPT !.globals_read = @ \cup {"dte_range"}]
        next == [out EXCEPT !.calls = Append(@, "tk.option_chain")]
        df == IF f.flags.is_put THEN e.chain.puts ELSE e.chain.calls
        filtering == [next EXCEPT !.globals_read = @ \cup globals_of_filter(f.flags)]
    IN  IF IsNone(e.days) THEN skip
        ELSE IF ~(cfg.dte_range[1] <= Val(e.days) /\ Val(e.days) <= cfg.dte_range[2])
        THEN out
        ELSE IF e.chain.kind = "raise" THEN next
        ELSE IF df.kind = "none" THEN next
        ELSE IF df.kind = "malformed" THEN outer_except(next, "KeyError")
        ELSE IF df.rows = <<>> THEN next
        ELSE LET g == scan_rows(filtering, e.exp, Val(e.days),
                                strategy_filter(df.rows, Val(f.price), f.flags))
                 new == {g.evals[k].ev : k \in (Len(f.evals) + 1)..Len(g.evals)}
             IN  [g EXCEPT !.globals_read =
                               @ \cup UNION {globals_of_row(ev, f.flags) : ev \in new}]

\* The next expiration of opts is examined
ScanExpiration(i) ==
    /\ script = "scan_all"
    /\ task[i].pc = "loop"
    /\ task[i].k <= Len(task[i].opts)
    /\ task' = [task EXCEPT ![i] = after_expiration(@, @.opts[@.k])]
    /\ UNCHANGED <<cfg, market, tickers, script, results, diags, returned, session>>
    /\ UNCHANGED <<price_cache, app, income_bot_vars>>

\* The frame at the return of scan after the expiration loop
after_loop(f) ==
    IF IsNone(f.best)
    THEN fail(f, "No Match", "No contract passed filters")
    ELSE [f EXCEPT !.pc = "returned", !.ret = Some([r |-> f.best, d |-> f.best_diag])]

\* ScanReturn of a scan that appends its own record to the list of the
\* caller instead of only returning it
ScanReturnAppending(i) ==
    /\ script = "scan_all"
    /\ task[i].pc = "loop"
    /\ task[i].k > Len(task[i].opts)
    /\ task' = [task EXCEPT ![i] = after_loop(@)]
    /\ results' = IF IsNone(task[i].best) THEN results ELSE Append(results, Val(task[i].best))
    /\ UNCHANGED <<cfg, market, tickers, script, diags, returned, session>>
    /\ UNCHANGED <<price_cache, app, income_bot_vars>>

\* The expiration loop is over: scan returns best or No Match
ScanReturn(i) ==
    /\ script = "scan_all"
    /\ task[i].pc = "loop"
    /\ task[i].k > Len(task[i].opts)
    /\ task' = [task EXCEPT ![i] = after_loop(@)]
    /\ UNCHANGED <<cfg, market, tickers, script, results, diags, returned, session>>
    /\ UNCHANGED <<price_cache, app, income_bot_vars>>

-----------------------------------------------------------------------------
(* scan_all and the run handler *)

\* "if r is not None: results.append(r)" over outs
RECURSIVE collect_results(_)
collect_results(outs) ==
    IF outs = <<>> THEN <<>>
    ELSE LET r == Head(outs).r
         IN  (IF ~IsNone(r) THEN <<Val(r)>> ELSE <<>>) \o collect_results(Tail(outs))

\* keeps_diag without the test of KilledBy: "if d is not None"
keeps_diag_any(d) == ~IsNone(d)

\* "if d is not None and d.get("KilledBy")"
keeps_diag(d) == ~IsNone(d) /\ Val(d).KilledBy # ""

\* "if d is not None and d.get("KilledBy"): diags.append(d)" over outs
RECURSIVE collect_diags(_)
collect_diags(outs) ==
    IF outs = <<>> THEN <<>>
    ELSE LET d == Head(outs).d
         IN  (IF keeps_diag(d) THEN <<Val(d)>> ELSE <<>>) \o collect_diags(Tail(outs))

\* The RUN LIVE SCAN button is pressed: scan_all(tickers) submits one task
\* per ticker to the pool
PressRun ==
    /\ app = "juicebox_pro"
    /\ script = "idle"
    /\ script' = "scan_all"
    /\ task' = [i \in 1..Len(tickers) |-> QueuedFrame(tickers[i])]
    /\ results' = <<>>
    /\ diags' = <<>>
    /\ returned' = FALSE
    /\ UNCHANGED <<cfg, market, tickers, session, price_cache, app, income_bot_vars>>

\* Collect of a run handler that extends the lists of the session instead of
\* assigning them
CollectExtending ==
    /\ script = "scan_all"
    /\ \A i \in DOMAIN task : task[i].pc = "returned"
    /\ LET outs == [i \in 1..Len(tickers) |-> Val(task[i].ret)]
       IN  /\ results' = collect_results(outs)
           /\ diags' = collect_diags(outs)
           /\ session' = [results_master |-> session.results_master \o collect_results(outs),
                          diags_master |-> session.diags_master \o collect_diags(outs)]
    /\ returned' = TRUE
    /\ script' = "idle"
    /\ UNCHANGED <<cfg, market, tickers, task, price_cache, app, income_bot_vars>>

\* Every task has returned: list(ex.map(...)) is complete, scan_all collects
\* outs into results and diags and returns, and the run handler stores both
\* in the session
Collect ==
    /\ script = "scan_all"
    /\ \A i \in DOMAIN task : task[i].pc = "returned"
    /\ LET outs == [i \in 1..Len(tickers) |-> Val(task[i].ret)]
       IN  /\ results' = collect_results(outs)
           /\ diags' = collect_diags(outs)
           /\ session' = [results_master |-> collect_results(outs),
                          diags_master |-> collect_diags(outs)]
    /\ returned' = TRUE
    /\ script' = "idle"
    /\ UNCHANGED <<cfg, market, tickers, task, price_cache, app, income_bot_vars>>

Next ==
    \/ PressRun
    \/ \E i \in DOMAIN task : ScanInfo(i)
    \/ \E i \in DOMAIN task : ScanPrice(i)
    \/ \E i \in DOMAIN task : ScanOptions(i)
    \/ \E i \in DOMAIN task : ScanExpiration(i)
    \/ \E i \in DOMAIN task : ScanReturn(i)
    \/ Collect

-----------------------------------------------------------------------------
(* Section 3 of the source: the sidebar *)

\* The globals the sidebar leaves: cushion_val stays 0 unless the mode is an
\* ITM mode; the price and DTE sliders are at their defaults (dollars, days)
Sidebar(mode, cushion, acct, goal_amt, auto_detect, shares_owned, cash_avail, min_oi, f_sound, etf_only) ==
    [acct |-> acct,
     goal_amt |-> goal_amt,
     mode |-> mode,
     price_range |-> <<2, 100>>,
     dte_range |-> <<0, 30>>,
     cushion_val |-> IF mode \in {MODE_DEEP_ITM, MODE_CSP_ITM} THEN cushion ELSE 0,
     f_sound |-> f_sound,
     etf_only |-> etf_only,
     auto_detect |-> auto_detect,
     shares_owned |-> shares_owned,
     cash_avail |-> Some(cash_avail),
     min_oi |-> min_oi]

-----------------------------------------------------------------------------
(* src/income_bot.py: calculate_pop and the Deep Scanner page.  Implied     *)
(* volatility and the Target in percent are counted in thousandths.         *)

CASH_SECURED_PUT == "Cash-Secured Put"
COVERED_CALL == "Covered Call"

\* calculate_pop with "and" for "or" in its guard
calculate_pop_both(price, strike, days, iv, strategy) ==
    IF iv <= 0 /\ days <= 0
    THEN [kind |-> "value", permille |-> 500]
    ELSE IF strike = 0
    THEN [kind |-> "raise"]
    ELSE [kind |-> "N(d2)", price |-> price, strike |-> strike, days |-> Max(days, 1),
          iv |-> iv, complement |-> strategy = CASH_SECURED_PUT]

\* calculate_pop(price, strike, days, iv, strategy): 0.5 in the degenerate
\* case; else the float division price / strike raises for a strike of 0,
\* and the result is N(d2), or 1 - N(d2) for a put, of the d2 of its
\* arguments, kept as the term it is (np.log, np.sqrt and norm.cdf are not
\* evaluated)
calculate_pop(price, strike, days, iv, strategy) ==
    IF iv <= 0 \/ days <= 0
    THEN [kind |-> "value", permille |-> 500]
    ELSE IF strike = 0
    THEN [kind |-> "raise"]
    ELSE [kind |-> "N(d2)", price |-> price, strike |-> strike, days |-> Max(days, 1),
          iv |-> iv, complement |-> strategy = CASH_SECURED_PUT]

\* get_liquid_universe()
get_liquid_universe ==
    <<"AAPL", "TSLA", "NVDA", "AMD", "PLTR", "SOFI", "MARA", "F", "BAC", "T",
      "CCL", "IREN", "COIN", "RIVN", "GOOGL", "MSFT", "AMZN">>

\* EARNINGS_DB for the tickers of the universe, as the day of January 2026
\* (dates of February count on from 31)
EARNINGS_DB ==
    [t \in {"AAPL", "TSLA", "NVDA", "AMD", "PLTR", "COIN", "GOOGL", "MSFT", "AMZN"} |->
        CASE t = "AAPL" -> 29 [] t = "TSLA" -> 28 [] t = "PLTR" -> 33
          [] t = "AMD" -> 34 [] t = "NVDA" -> 56 [] t = "COIN" -> 43
          [] t = "MSFT" -> 27 [] t = "GOOGL" -> 30 [] t = "AMZN" -> 32]

\* check_earnings(ticker, exp_date), the expiration given by its day
check_earnings(ticker, exp_day) ==
    IF ticker \notin DOMAIN EARNINGS_DB THEN "Clear"
    ELSE IF exp_day >= EARNINGS_DB[ticker] THEN "warning" ELSE "ok Clear"

\* The sidebar of income_bot: the number inputs have no minimum, so capital
\* and target_val are any numbers; weekly_target is derived
BotSidebar(capital, strategy_type, aggressive, goal_mode, target_val, max_days_slider) ==
    [capital |-> capital,
     strategy_type |-> strategy_type,
     aggressive |-> aggressive,
     weekly_target |-> IF goal_mode = "$ Goal" THEN target_val
                       ELSE (target_val * capital) \div 100000,
     max_days_slider |-> max_days_slider]

\* the rows of data the Deep Scanner keeps: within capital and beyond the
\* buffer (0.98 aggressive, else 0.92) on the side of the strategy
deep_scan_filter(data, price) ==
    LET buffer == IF bot.cfg.aggressive THEN 98 ELSE 92
        put(row) == row.strike * 100 <= bot.cfg.capital
                    /\ row.strike * 100 < price * buffer
        call(row) == row.strike * 100 <= bot.cfg.capital
                     /\ row.strike * buffer > price * 100
    IN  IF bot.cfg.strategy_type = CASH_SECURED_PUT
        THEN SelectSeq(data, put) ELSE SelectSeq(data, call)

\* match: df_f.iloc[-1] for puts, df_f.iloc[0] for calls, None if df_f is empty
deep_scan_match(df_f) ==
    IF df_f = <<>> THEN None
    ELSE IF bot.cfg.strategy_type = CASH_SECURED_PUT
    THEN Some(df_f[Len(df_f)]) ELSE Some(Head(df_f))

\* qty = int(np.ceil(weekly_target / (bid * 100)))
deep_scan_qty(bid) == Ceil(bot.cfg.weekly_target, bid * 100)

\* The body of "for exp in stock.options" on the expiration e, with the list
\* results: the new list, and whether an exception left the loop for the
\* bare "except: continue" of the ticker loop (an unparsable date, a chain
\* fetch that raises, calculate_pop dividing by a strike of 0, or the return
\* percentage dividing by a capital of 0)
deep_scan_expiration(res, t, price, e) ==
    LET same == [results |-> res, raised |-> FALSE]
        raise == [results |-> res, raised |-> TRUE]
        data == IF bot.cfg.strategy_type = CASH_SECURED_PUT
                THEN e.chain.puts ELSE e.chain.calls
        match == deep_scan_match(deep_scan_filter(data, price))
        bid == Val(Val(match).bid)
        strike == Val(match).strike
        qty == deep_scan_qty(bid)
        prob == calculate_pop(price, strike, Val(e.days),
                              Val(match).impliedVolatility, bot.cfg.strategy_type)
        income_val == bid * 100 * qty
    IN  IF IsNone(e.days) THEN raise
        ELSE IF ~(7 <= Val(e.days) /\ Val(e.days) <= bot.cfg.max_days_slider) THEN same
        ELSE IF e.chain.kind = "raise" THEN raise
        ELSE IF IsNone(match) THEN same
        ELSE IF IsNone(Val(match).bid) \/ ~(bid > 50) THEN same
        ELSE IF ~(qty * strike * 100 <= bot.cfg.capital) THEN same
        ELSE IF prob.kind = "raise" \/ bot.cfg.capital = 0 THEN raise
        ELSE [results |-> Append(res,
                  [Ticker |-> t,
                   Price |-> Round2(price),
                   Strike |-> strike,
                   Expiry |-> e.exp,
                   WinProb |-> prob,
                   Contracts |-> qty,
                   Earnings |-> check_earnings(t, e.day),
                   Income |-> Round2(income_val),
                   ReturnPct |-> RoundHalfEven(income_val * 10, bot.cfg.capital \div 1000)]),
              raised |-> FALSE]

\* "for exp in stock.options": results after the loop, left early by an
\* exception
RECURSIVE deep_scan_expirations(_, _, _, _)
deep_scan_expirations(res, t, price, exps) ==
    IF exps = <<>> THEN res
    ELSE LET out == deep_scan_expiration(res, t, price, Head(exps))
         IN  IF out.raised THEN out.results
             ELSE deep_scan_expirations(out.results, t, price, Tail(exps))

\* One iteration of "for i, t in enumerate(universe)": a missing lastPrice
\* and a failing stock.options raise into "except: continue"
deep_scan_ticker(res, t) ==
    LET m == bot.market[t]
    IN  IF IsNone(m.lastPrice) THEN res
        ELSE IF ~(USD(2, 0) <= Val(m.lastPrice) /\ Val(m.lastPrice) <= USD(100, 0)) THEN res
        ELSE IF m.options.kind = "raise" THEN res
        ELSE deep_scan_expirations(res, t, Val(m.lastPrice), m.options.exps)

\* the tickers of get_liquid_universe() the Deep Scanner is run over
MaxUniverse == 2

universe == SubSeq(get_liquid_universe, 1, MaxUniverse)

\* the Deep Scanner between two presses of its button
IdleBot(config, provider) ==
    [cfg |-> config, market |-> provider, pc |-> "idle", universe |-> <<>>,
     i |-> 0, results |-> <<>>]

\* "Start Global Deep Scan" is pressed: universe and results = []
DeepScanStart ==
    /\ app = "income_bot"
    /\ bot.pc = "idle"
    /\ bot' = [bot EXCEPT !.pc = "scanning", !.universe = universe,
                          !.i = 1, !.results = <<>>]
    /\ UNCHANGED <<cfg, market, tickers, script, task, results, diags, returned, session>>
    /\ UNCHANGED <<price_cache, app, deep_scan, pop>>

\* The ticker loop takes its next ticker
DeepScanTicker ==
    /\ bot.pc = "scanning"
    /\ bot.i <= Len(bot.universe)
    /\ bot' = [bot EXCEPT !.results = deep_scan_ticker(@, bot.universe[bot.i]),
                          !.i = @ + 1]
    /\ UNCHANGED <<cfg, market, tickers, script, task, results, diags, returned, session>>
    /\ UNCHANGED <<price_cache, app, deep_scan, pop>>

\* The ticker loop is over: st.session_state.deep_scan = results
DeepScanStore ==
    /\ bot.pc = "scanning"
    /\ bot.i > Len(bot.universe)
    /\ deep_scan' = Some(bot.results)
    /\ bot' = [bot EXCEPT !.pc = "idle"]
    /\ UNCHANGED <<cfg, market, tickers, script, task, results, diags, returned, session>>
    /\ UNCHANGED <<price_cache, app, pop>>

\* calculate_pop is called with the arguments of pop
CalcPop ==
    /\ IsNone(pop.out)
    /\ pop' = [pop EXCEPT !.out = Some(calculate_pop(pop.price, pop.strike, pop.days,
                                                     pop.iv, pop.strategy))]
    /\ UNCHANGED <<cfg, market, tickers, script, task, results, diags, returned, session>>
    /\ UNCHANGED <<price_cache, app, bot, deep_scan>>

-----------------------------------------------------------------------------
(* The bounded worlds the scanner is run in *)

\* tickers of the batch specification, expirations and quoted rows per ticker
MaxTickers == 2
MaxExps == 2
MaxRows == 2

Universe == <<"AAA", "BBB", "CCC", "DDD">>

\* sorted({...}) of the watchlist: a sorted list without duplicates
Watchlists == {SubSeq(Universe, 1, n) : n \in 0..MaxTickers}

ExpIds == <<"2026-01-09", "2026-01-16", "2026-01-23", "2026-01-30">>

Row(strike, bid, ask, lastPrice, oi) ==
    [strike |-> Some(strike), bid |-> bid, ask |-> ask, lastPrice |-> lastPrice,
     openInterest |-> oi]

Frame(rows) == [kind |-> "frame", rows |-> rows]

\* an option chain quoting the same rows as calls and as puts
Chain(rows) == [kind |-> "ok", calls |-> Frame(rows), puts |-> Frame(rows)]

Info(quoteType, eps, rec, price) ==
    [kind |-> "ok", quoteType |-> quoteType, trailingEps |-> eps,
     recommendationKey |-> rec, regularMarketPrice |-> price]

\* the rows the provider quotes: strikes 9, 10, 11 and 12 dollars around the
\* price of 10 dollars, open interest 600
ScanRows ==
    {Row(9000, Some(1000), Some(1100), None, Some(600)),       \* mid 1.050
     Row(9000, Some(1100), Some(1300), Some(900), Some(600)),  \* mid 1.200
     Row(9000, None, None, Some(200), Some(600)),              \* last 0.200
     Row(10000, None, None, Some(200), Some(600)),             \* last 0.200
     Row(10000, Some(200), Some(210), Some(150), Some(600)),   \* mid 0.205
     Row(11000, Some(1000), Some(1100), None, Some(600)),      \* mid 1.050
     Row(11000, Some(1100), Some(1300), Some(900), Some(600)), \* mid 1.200
     Row(11000, None, None, Some(200), Some(600)),             \* last 0.200
     Row(12000, Some(200), Some(210), Some(150), Some(600))}   \* mid 0.205

\* the row lists of n rows with pairwise different strikes
RowSeqs(n) ==
    {s \in [1..n -> ScanRows] :
        \A i, j \in 1..n : i < j => s[i].strike # s[j].strike}

\* the option data of len expirations that quote at most budget rows in all
RECURSIVE ChainLists(_, _)
ChainLists(len, budget) ==
    IF len = 0 THEN {<<>>}
    ELSE UNION {{<<rows>> \o rest : rest \in ChainLists(len - 1, budget - Len(rows))} :
                rows \in UNION {RowSeqs(n) : n \in 0..budget}}

\* expiration k of a ticker lies 7 * k days ahead
Expirations(chains) ==
    [k \in 1..Len(chains) |->
        [exp |-> ExpIds[k], days |-> Some(7 * k), chain |-> Chain(chains[k])]]

ScanMarkets ==
    {[info |-> Info(Some("ETF"), Some(2), Some("buy"), Some(USD(10, 0))),
      hist_close |-> None,
      options |-> [kind |-> "ok", exps |-> Expirations(chains)]] :
        chains \in UNION {ChainLists(len, MaxRows) : len \in 0..MaxExps}}

\* <<acct, auto_detect, shares_owned, cash_avail>>
CallAccounts ==
    {<<USD(1000, 0), TRUE, 0, USD(1000, 0)>>,
     <<USD(2000, 0), TRUE, 0, USD(2000, 0)>>,
     <<USD(1000, 0), TRUE, 250, USD(1000, 0)>>,
     <<USD(2000, 0), FALSE, 250, USD(2000, 0)>>,
     <<USD(6000, 0), FALSE, 0, USD(6000, 0)>>}

PutAccounts ==
    {<<USD(1000, 0), TRUE, 0, cash_avail>> :
        cash_avail \in {USD(1000, 0), USD(2000, 0), USD(2500, 0)}}

ScanConfigs ==
    {Sidebar(mode, cushion, a[1], USD(30, 0), a[2], a[3], a[4], 500, FALSE, FALSE) :
        mode \in {MODE_STANDARD, MODE_DEEP_ITM, MODE_CLOSEST},
        cushion \in {0, 10},
        a \in CallAccounts}
    \cup
    {Sidebar(mode, cushion, a[1], USD(30, 0), a[2], a[3], a[4], 500, FALSE, FALSE) :
        mode \in {MODE_CSP_OTM, MODE_CSP_ITM},
        cushion \in {0, 10},
        a \in PutAccounts}

\* a ticker the provider knows nothing about
DeadMarket ==
    [info |-> [kind |-> "raise"], hist_close |-> None, options |-> [kind |-> "raise"]]

\* a chain with a row of NaN open interest, a row without a live quote and a
\* thinly traded row
BatchRows ==
    <<Row(9000, Some(1100), Some(1300), None, Some(600)),
      Row(10000, Some(1100), Some(1300), None, None),
      Row(10000, Some(100), Some(0), None, Some(600)),
      Row(11000, None, None, Some(205), Some(100)),
      Row(12000, None, None, Some(200), Some(600))>>

BatchMarketOf(info, hist_close, options) ==
    [info |-> info, hist_close |-> hist_close, options |-> options]

BatchMarkets ==
    {DeadMarket,
     \* regularMarketPrice 0, no history
     BatchMarketOf(Info(Some("ETF"), None, None, Some(0)), None, [kind |-> "raise"]),
     \* price from the history fallback, outside the price range
     BatchMarketOf(Info(Some("ETF"), Some(1), Some("buy"), None), Some(USD(150, 0)),
                   [kind |-> "ok", exps |-> <<>>]),
     \* a price, but no expirations
     BatchMarketOf(Info(None, Some(1), Some("sell"), Some(USD(10, 0))), None,
                   [kind |-> "ok", exps |-> <<>>]),
     \* an unparsable date, an expiration beyond the DTE window, and a chain
     \* whose fetch raises
     BatchMarketOf(Info(Some("ETF"), Some(-1), Some("buy"), Some(USD(10, 0))), None,
                   [kind |-> "ok",
                    exps |-> <<[exp |-> "n/a", days |-> None, chain |-> Chain(BatchRows)],
                               [exp |-> ExpIds[4], days |-> Some(60),
                                chain |-> Chain(BatchRows)],
                               [exp |-> ExpIds[1], days |-> Some(7),
                                chain |-> [kind |-> "raise"]]>>]),
     \* one quoted chain, then a chain without frames
     BatchMarketOf(Info(Some("EQUITY"), Some(2), Some("hold"), Some(USD(10, 4))), None,
                   [kind |-> "ok",
                    exps |-> <<[exp |-> ExpIds[1], days |-> Some(7),
                                chain |-> Chain(BatchRows)],
                               [exp |-> ExpIds[2], days |-> Some(14),
                                chain |-> [kind |-> "ok", calls |-> [kind |-> "none"],
                                           puts |-> [kind |-> "none"]]]>>]),
     \* one quoted chain, then a chain frame without its strike column
     BatchMarketOf(Info(Some("ETF"), Some(2), Some("buy"), Some(USD(10, 0))), None,
                   [kind |-> "ok",
                    exps |-> <<[exp |-> ExpIds[1], days |-> Some(7),
                                chain |-> Chain(BatchRows)],
                               [exp |-> ExpIds[2], days |-> Some(14),
                                chain |-> [kind |-> "ok",
                                           calls |-> [kind |-> "malformed"],
                                           puts |-> [kind |-> "malformed"]]]>>])}

BatchConfigs ==
    {Sidebar(mode, 0, USD(10000, 0), USD(150, 0), TRUE, 0, USD(10000, 0), min_oi,
             f_sound, etf_only) :
        mode \in {MODE_STANDARD, MODE_CSP_OTM},
        min_oi \in {500},
        f_sound \in BOOLEAN,
        etf_only \in BOOLEAN}

TickerSet == {Universe[k] : k \in 1..Len(Universe)}

\* the state after the script's first run, the button not yet pressed, and
\* nothing cached
Fresh ==
    /\ script = "idle"
    /\ task = <<>>
    /\ results = <<>>
    /\ diags = <<>>
    /\ returned = FALSE
    /\ session = [results_master |-> <<>>, diags_master |-> <<>>]
    /\ price_cache = [t \in TickerSet |-> None]

\* the widget defaults of the sidebar of income_bot
BotDefaults == BotSidebar(USD(5000, 0), CASH_SECURED_PUT, FALSE, "$ Goal", USD(150, 0), 45)

\* a ticker of which the provider of income_bot knows nothing
DeadBotMarket == [lastPrice |-> None, options |-> [kind |-> "raise"]]

\* income_bot after its first run, no key deep_scan in the session yet
BotFresh(config, provider) ==
    /\ bot = IdleBot(config, provider)
    /\ deep_scan = None

\* calculate_pop about to be called
PopCall(price, strike, days, iv, strategy) ==
    [price |-> price, strike |-> strike, days |-> days, iv |-> iv,
     strategy |-> strategy, out |-> None]

\* the server runs juicebox_pro; income_bot is not touched
JuiceboxOnly ==
    /\ app = "juicebox_pro"
    /\ BotFresh(BotDefaults, [t \in {universe[k] : k \in 1..Len(universe)} |-> DeadBotMarket])
    /\ pop = PopCall(USD(10, 0), USD(9, 0), 14, 500, CASH_SECURED_PUT)

\* a watchlist of up to MaxTickers tickers over the batch markets
Init ==
    /\ cfg \in BatchConfigs
    /\ tickers \in Watchlists
    /\ market \in {m \in [TickerSet -> BatchMarkets] :
                      \A t \in TickerSet :
                          (\A k \in 1..Len(tickers) : tickers[k] # t) => m[t] = DeadMarket}
    /\ Fresh
    /\ JuiceboxOnly

\* one ticker over every option data of at most MaxExps expirations and
\* MaxRows rows
InitScan ==
    /\ cfg \in ScanConfigs
    /\ tickers = <<Universe[1]>>
    /\ \E m \in ScanMarkets : market = [t \in TickerSet |-> IF t = Universe[1] THEN m ELSE DeadMarket]
    /\ Fresh
    /\ JuiceboxOnly

Spec == Init /\ [][Next]_vars

SpecScan == InitScan /\ [][Next]_vars

\* a chain of one row without a live quote and one quoted row
FairRows ==
    <<Row(10000, Some(100), Some(0), None, Some(600)),
      Row(11000, None, None, Some(205), Some(600))>>

\* a quoted chain of one expiration
QuotedMarket ==
    BatchMarketOf(Info(Some("ETF"), Some(2), Some("buy"), Some(USD(10, 0))), None,
                  [kind |-> "ok",
                   exps |-> <<[exp |-> ExpIds[1], days |-> Some(7),
                               chain |-> Chain(FairRows)]>>])

\* the same chain, then a chain frame without its strike column
MalformedMarket ==
    BatchMarketOf(Info(Some("ETF"), Some(2), Some("buy"), Some(USD(10, 0))), None,
                  [kind |-> "ok",
                   exps |-> <<[exp |-> ExpIds[1], days |-> Some(7),
                               chain |-> Chain(FairRows)],
                              [exp |-> ExpIds[2], days |-> Some(14),
                               chain |-> [kind |-> "ok",
                                          calls |-> [kind |-> "malformed"],
                                          puts |-> [kind |-> "malformed"]]]>>])

FairMarkets == {DeadMarket, QuotedMarket, MalformedMarket}

\* a watchlist over markets, the other tickers unknown to the provider
Provider(markets) ==
    {m \in [TickerSet -> markets \cup {DeadMarket}] :
        \A t \in TickerSet :
            (\A k \in 1..Len(tickers) : tickers[k] # t) => m[t] = DeadMarket}

\* the batch under the sidebar defaults of the two filter toggles
InitFair ==
    /\ cfg \in {c \in BatchConfigs : ~c.f_sound /\ ~c.etf_only}
    /\ tickers \in Watchlists
    /\ market \in Provider(FairMarkets)
    /\ Fresh
    /\ JuiceboxOnly

\* the batch with threads that keep running: a pool worker that can take a
\* step takes one, and the script thread collects once the pool is done
SpecFair == InitFair /\ [][Next]_vars /\ WF_vars(Next)

\* a ticker whose expiration list the provider never answers: list(tk.options)
\* blocks for ever
HangMarket ==
    BatchMarketOf(Info(Some("ETF"), Some(2), Some("buy"), Some(USD(10, 0))), None,
                  [kind |-> "hang"])

HangMarkets == {DeadMarket, QuotedMarket, HangMarket}

\* the batch over a provider that may leave a call unanswered
InitHang ==
    /\ cfg \in {c \in BatchConfigs : ~c.f_sound /\ ~c.etf_only}
    /\ tickers \in Watchlists
    /\ market \in Provider(HangMarkets)
    /\ Fresh
    /\ JuiceboxOnly

\* the same threads over that provider: every thread that can take a step
\* takes one; a thread inside an unanswered call has no step to take
SpecHang == InitHang /\ [][Next]_vars /\ WF_vars(Next)

-----------------------------------------------------------------------------
(* The script over a session: reruns, a provider that moves, the price cache *)

\* the sidebar in its two strategies, the filter toggles off
SessionConfigs == {c \in BatchConfigs : ~c.f_sound /\ ~c.etf_only}

\* QuotedMarket after the price has moved to 11 dollars
MovedMarket ==
    BatchMarketOf(Info(Some("ETF"), Some(2), Some("buy"), Some(USD(11, 0))), None,
                  QuotedMarket.options)

SessionMarkets == {DeadMarket, QuotedMarket, MovedMarket}

\* a watchlist that is not empty
SessionWatchlists == {w \in Watchlists : w # <<>>}

\* the script thread runs the script top to bottom and is inside scan_all
\* until list(ex.map(...)) has every result: a rerun starts only when it is
\* free
ScriptAnyTime == TRUE

ScriptIdle == script = "idle"

\* The script is rerun without the button (a widget was changed): the
\* sidebar assigns the globals again, run is False, and results and diags
\* are read from the session
Rerun(c) ==
    /\ app = "juicebox_pro"
    /\ ScriptIdle
    /\ cfg' = c
    /\ results' = session.results_master
    /\ diags' = session.diags_master
    /\ returned' = FALSE
    /\ UNCHANGED <<market, tickers, script, task, session>>
    /\ UNCHANGED <<price_cache, app, income_bot_vars>>

\* Between two scans the provider has new data for the watchlist
MarketChange(m) ==
    /\ app = "juicebox_pro"
    /\ script = "idle"
    /\ m # market
    /\ market' = m
    /\ UNCHANGED <<cfg, tickers, script, task, results, diags, returned, session>>
    /\ UNCHANGED <<price_cache, app, income_bot_vars>>

\* The entry of get_live_price(t) is older than ttl = 30 seconds
CacheExpire(t) ==
    /\ cached(t)
    /\ price_cache' = [price_cache EXCEPT ![t] = None]
    /\ UNCHANGED <<cfg, market, tickers, script, task, results, diags, returned, session>>
    /\ UNCHANGED <<app, income_bot_vars>>

\* the number inputs of income_bot: capital and target at their defaults or
\* set to 0 (neither input has a minimum)
BotConfigs ==
    {BotSidebar(capital, strategy_type, FALSE, "$ Goal", target_val, 45) :
        capital \in {0, USD(5000, 0)},
        strategy_type \in {CASH_SECURED_PUT, COVERED_CALL},
        target_val \in {0, USD(150, 0)}}

BotRow(strike, bid, iv) == [strike |-> strike, bid |-> bid, impliedVolatility |-> iv]

\* strikes of 8, 9, 11 and 12 dollars quoted for puts and calls
BotRows ==
    <<BotRow(USD(8, 0), Some(500), 500), BotRow(USD(9, 0), Some(600), 500),
      BotRow(USD(11, 0), Some(500), 0), BotRow(USD(12, 0), Some(40), 500)>>

\* a stock at 10 dollars with one expiration 14 days away
LiveBotMarket ==
    [lastPrice |-> Some(USD(10, 0)),
     options |-> [kind |-> "ok",
                  exps |-> <<[exp |-> ExpIds[2], day |-> 16, days |-> Some(14),
                              chain |-> [kind |-> "ok", puts |-> BotRows,
                                         calls |-> BotRows]]>>]]

BotProviders == [{universe[k] : k \in 1..Len(universe)} -> {DeadBotMarket, LiveBotMarket}]

\* income_bot is rerun without its button (a widget was changed): the
\* sidebar assigns its globals again
BotRerun(c) ==
    /\ app = "income_bot"
    /\ bot.pc = "idle"
    /\ bot' = [bot EXCEPT !.cfg = c]
    /\ UNCHANGED <<cfg, market, tickers, script, task, results, diags, returned, session>>
    /\ UNCHANGED <<price_cache, app, deep_scan, pop>>

NextSession ==
    \/ Next
    \/ \E c \in SessionConfigs : Rerun(c)
    \/ \E m \in Provider(SessionMarkets) : MarketChange(m)
    \/ \E t \in TickerSet : CacheExpire(t)
    \/ DeepScanStart
    \/ DeepScanTicker
    \/ DeepScanStore
    \/ \E c \in BotConfigs : BotRerun(c)

\* the server runs income_bot; juicebox_pro is not touched
IncomeBotOnly ==
    /\ app = "income_bot"
    /\ cfg \in {c \in SessionConfigs : c.mode = MODE_STANDARD}
    /\ tickers = <<>>
    /\ market = [t \in TickerSet |-> DeadMarket]
    /\ Fresh

\* one of the two dashboards, freshly loaded
InitSession ==
    \/ /\ cfg \in SessionConfigs
       /\ tickers \in SessionWatchlists
       /\ market \in Provider(SessionMarkets)
       /\ Fresh
       /\ JuiceboxOnly
    \/ /\ IncomeBotOnly
       /\ \E c \in BotConfigs, m \in BotProviders : BotFresh(c, m)
       /\ pop = PopCall(USD(10, 0), USD(9, 0), 14, 500, CASH_SECURED_PUT)

SpecSession == InitSession /\ [][NextSession]_vars

\* the arguments calculate_pop is called with: a zero and a negative among
\* the days and the volatilities, a strike of 0
PopInputs ==
    {PopCall(price, strike, days, iv, strategy) :
        price \in {0, USD(10, 0)},
        strike \in {0, USD(9, 0), USD(11, 0)},
        days \in {-1, 0, 1, 14},
        iv \in {-100, 0, 500},
        strategy \in {CASH_SECURED_PUT, COVERED_CALL}}

InitPop ==
    /\ IncomeBotOnly
    /\ BotFresh(BotDefaults, [t \in {universe[k] : k \in 1..Len(universe)} |-> DeadBotMarket])
    /\ pop \in PopInputs

NextPop == CalcPop

SpecPop == InitPop /\ [][NextPop]_vars

-----------------------------------------------------------------------------
(* Reading the frames *)

\* the positions of task i's evaluated rows that reached the construction of
\* res (the accepted candidates), in evaluation order
Accepted(i) == {k \in 1..Len(task[i].evals) : task[i].evals[k].ev.killed = ""}

\* the positions of task i's evaluated rows that got as far as the
\* intrinsic/extrinsic split
Split(i) ==
    {k \in 1..Len(task[i].evals) :
        task[i].evals[k].ev.killed \notin {"strike", "oi", "premium"}}

Ev(i, k) == task[i].evals[k].ev

ResOf(i, k) == Val(task[i].evals[k].res)

\* task i has returned a result
HasResult(i) ==
    task[i].pc = "returned" /\ ~IsNone(task[i].ret) /\ ~IsNone(Val(task[i].ret).r)

Result(i) == Val(Val(task[i].ret).r)

\* how often ticker t occurs in a list of records under the given key
InResults(t) == Cardinality({j \in 1..Len(results) : results[j].RawT = t})

InDiags(t) == Cardinality({j \in 1..Len(diags) : diags[j].Ticker = t})

-----------------------------------------------------------------------------
(* C1 *)

\* C1: when scan_all has returned, every ticker of the list has exactly one
\* entry, either a record in results or a record in diags, never both and
\* never neither, so len(results) + len(diags) = N.
C1_EveryTickerOnce ==
    returned =>
        /\ Len(results) + Len(diags) = Len(tickers)
        /\ \A k \in 1..Len(tickers) : InResults(tickers[k]) + InDiags(tickers[k]) = 1

\* C1 witness: a batch of two tickers has returned with one result and one
\* caught exception.
C1_Witness ==
    /\ returned
    /\ Len(tickers) = 2
    /\ Len(results) = 1
    /\ \E j \in 1..Len(diags) : diags[j].KilledBy = "Exception"

-----------------------------------------------------------------------------
(* C2 *)

\* what the collateral of a candidate is checked against
WithinMeans(is_put, needed, total) ==
    IF is_put THEN total <= Val(cfg.cash_avail)
    ELSE IF cfg.auto_detect /\ cfg.shares_owned > 0
    THEN needed * 100 <= cfg.shares_owned
    ELSE total <= cfg.acct

\* collateralPerContract: 100 shares at the price for a covered call, 100
\* shares at the strike for a cash-secured put
CollateralPerContract(i, k) ==
    IF task[i].flags.is_put THEN Ev(i, k).strike * 100 ELSE Val(task[i].price) * 100

\* C2 as stated: every accepted candidate has totalCollateral =
\* collateralPerContract * contractsNeeded <= capital (the account value for a
\* covered call, the cash available for a put), for every setting of the
\* account inputs.
C2_CollateralWithinCapital ==
    \A i \in DOMAIN task : \A k \in Accepted(i) :
        /\ Ev(i, k).coll_total = CollateralPerContract(i, k) * Ev(i, k).needed
        /\ Ev(i, k).coll_total <=
               (IF task[i].flags.is_put THEN Val(cfg.cash_avail) ELSE cfg.acct)

\* C2 amended: every accepted candidate has totalCollateral =
\* collateralPerContract * contractsNeeded, carried in the result with the
\* full contract count, and is within its means: a put's total collateral is
\* at most the cash available; a covered call's is at most the account value,
\* except with auto-detect on and shares owned > 0, where instead the
\* contracts are at most shares_owned // 100.  A candidate beyond its means
\* is rejected with its full contract count, never down-sized.
C2_CollateralWithinMeans ==
    \A i \in DOMAIN task :
        /\ \A k \in Accepted(i) :
            /\ Ev(i, k).coll_total = CollateralPerContract(i, k) * Ev(i, k).needed
            /\ ResOf(i, k).Contracts = Ev(i, k).needed
            /\ ResOf(i, k).Collateral = Round0(Ev(i, k).coll_total)
            /\ Ev(i, k).needed * Ev(i, k).juice_con >= cfg.goal_amt
            /\ WithinMeans(task[i].flags.is_put, Ev(i, k).needed, Ev(i, k).coll_total)
        /\ \A k \in 1..Len(task[i].evals) :
            Ev(i, k).killed = "collateral" =>
                /\ IsNone(task[i].evals[k].res)
                /\ Ev(i, k).needed * Ev(i, k).juice_con >= cfg.goal_amt
                /\ ~WithinMeans(task[i].flags.is_put, Ev(i, k).needed,
                                CollateralPerContract(i, k) * Ev(i, k).needed)

\* C2 witness: a scan has returned a result of two contracts after rejecting
\* another candidate for its collateral.
C2_Witness ==
    \E i \in DOMAIN task :
        /\ HasResult(i)
        /\ Result(i).Contracts = 2
        /\ \E k \in 1..Len(task[i].evals) : Ev(i, k).killed = "collateral"

-----------------------------------------------------------------------------
(* C3 *)

\* C3: for every accepted candidate, Contracts = max(1, ceil(incomeGoal /
\* juicePerContract)) with juicePerContract the juice per share * 100 of the
\* same candidate, and Contracts >= 1: Contracts is the least n >= 1 with
\* n * juicePerContract >= incomeGoal.
C3_ContractsNeeded ==
    \A i \in DOMAIN task : \A k \in Accepted(i) :
        LET n == ResOf(i, k).Contracts
            j == Ev(i, k).juice_val * 100
        IN  /\ Ev(i, k).juice_con = j
            /\ n >= 1
            /\ n * j >= cfg.goal_amt
            /\ n = 1 \/ (n - 1) * j < cfg.goal_amt

\* C3 witness: a returned result needs two contracts, the goal not being a
\* multiple of the juice per contract.
C3_Witness ==
    \E i \in DOMAIN task : \E k \in Accepted(i) :
        /\ HasResult(i)
        /\ Result(i) = ResOf(i, k)
        /\ ResOf(i, k).Contracts = 2
        /\ cfg.goal_amt % Ev(i, k).juice_con # 0

-----------------------------------------------------------------------------
(* C4 *)

\* the admissibility rule of the configured strategy (the ATM mode has none
\* in the claim)
Admissible(strike, price) ==
    CASE cfg.mode = MODE_DEEP_ITM -> strike * 100 <= price * (100 - cfg.cushion_val)
      [] cfg.mode = MODE_STANDARD -> strike > price
      [] cfg.mode = MODE_CSP_OTM -> strike <= price
      [] cfg.mode = MODE_CSP_ITM -> strike * 100 >= price * (100 + cfg.cushion_val)
      [] OTHER -> TRUE

\* C4: the strike of every accepted candidate satisfies the admissibility
\* rule of the configured strategy with respect to the price of the scan and
\* the cushion, and is the strike the result carries (rounded to cents).
C4_StrikeAdmissible ==
    \A i \in DOMAIN task : \A k \in Accepted(i) :
        /\ Admissible(Ev(i, k).strike, Val(task[i].price))
        /\ ResOf(i, k).Strike = Round2(Ev(i, k).strike)
        /\ ResOf(i, k).Price = Round2(Val(task[i].price))

\* C4 witness: a Deep ITM scan with a cushion of 10 percent has returned the
\* strike exactly on the cushion floor.
C4_Witness ==
    \E i \in DOMAIN task :
        /\ HasResult(i)
        /\ cfg.mode = MODE_DEEP_ITM
        /\ cfg.cushion_val = 10
        /\ Result(i).Strike * 100 = Val(task[i].price) * 90

-----------------------------------------------------------------------------
(* Reading the expirations *)

Abs(x) == IF x >= 0 THEN x ELSE -x

\* the expirations of opts task i has been through
Examined(i) == 1..(task[i].k - 1)

\* the rows of the n-th expiration of task i on the side the mode trades, when
\* the expiration is inside the DTE window and its chain has a frame
QuotedRows(i, n) ==
    LET e == task[i].opts[n]
    IN  IF IsNone(e.days) THEN <<>>
        ELSE IF ~(cfg.dte_range[1] <= Val(e.days) /\ Val(e.days) <= cfg.dte_range[2])
        THEN <<>>
        ELSE IF e.chain.kind # "ok" THEN <<>>
        ELSE LET df == IF task[i].flags.is_put THEN e.chain.puts ELSE e.chain.calls
             IN  IF df.kind = "frame" THEN df.rows ELSE <<>>

\* the positions in evals of the rows task i evaluated of its n-th expiration
EvalsOf(i, n) ==
    {k \in 1..Len(task[i].evals) : task[i].evals[k].exp = task[i].opts[n].exp}

\* the expiration of opts the k-th evaluated row of task i belongs to
ExpOf(i, k) ==
    CHOOSE n \in 1..Len(task[i].opts) : task[i].opts[n].exp = task[i].evals[k].exp

\* the strikes, in order, of a list of rows
StrikesOf(rows) == [n \in 1..Len(rows) |-> Val(rows[n].strike)]

\* the strikes, in order, task i evaluated of its n-th expiration
RECURSIVE EvaluatedStrikes(_, _, _)
EvaluatedStrikes(i, n, k) ==
    IF k > Len(task[i].evals) THEN <<>>
    ELSE (IF k \in EvalsOf(i, n) THEN <<Ev(i, k).strike>> ELSE <<>>)
         \o EvaluatedStrikes(i, n, k + 1)

\* roiPercent of a candidate rounded to two decimals, in hundredths of a
\* percent
RoundedRoi(i, k) ==
    RoundHalfEven(Ev(i, k).juice_val * 100 * 100, CollateralPerContract(i, k) \div 100)

-----------------------------------------------------------------------------
(* C5 *)

\* C5 as stated: in the ATM mode no strike-side filter is applied: of every
\* examined chain with rows exactly one row is evaluated, a strike minimising
\* |strike - price| over all strikes of the chain.
C5_AtmNearestStrike ==
    cfg.mode = MODE_CLOSEST =>
        \A i \in DOMAIN task : \A n \in Examined(i) :
            LET rows == QuotedRows(i, n)
                price == Val(task[i].price)
            IN  rows # <<>> =>
                    /\ Cardinality(EvalsOf(i, n)) = 1
                    /\ \A k \in EvalsOf(i, n) : \A m \in 1..Len(rows) :
                           Abs(Ev(i, k).strike - price)
                               <= Abs(Val(rows[m].strike) - price)

\* C5 amended: in the ATM mode the filter strike > price is applied, and the
\* one row evaluated of an examined chain is the lowest strike above the price
\* (the closest OTM strike); a chain with no strike above the price gives no
\* candidate, and a strike at or below the price is never taken.
C5_AtmClosestOtm ==
    cfg.mode = MODE_CLOSEST =>
        \A i \in DOMAIN task : \A n \in Examined(i) :
            LET rows == QuotedRows(i, n)
                price == Val(task[i].price)
                above == {m \in 1..Len(rows) : Val(rows[m].strike) > price}
            IN  /\ above = {} => EvalsOf(i, n) = {}
                /\ above # {} => Cardinality(EvalsOf(i, n)) = 1
                /\ \A k \in EvalsOf(i, n) :
                       /\ Ev(i, k).strike > price
                       /\ \E m \in above : Val(rows[m].strike) = Ev(i, k).strike
                       /\ \A m \in above : Ev(i, k).strike <= Val(rows[m].strike)

\* C5 witness: an ATM scan has returned the strike above the price from a
\* chain that also quotes the strike equal to the price.
C5_Witness ==
    /\ cfg.mode = MODE_CLOSEST
    /\ \E i \in DOMAIN task : \E k \in Accepted(i) :
           /\ HasResult(i)
           /\ Result(i) = ResOf(i, k)
           /\ Ev(i, k).strike > Val(task[i].price)
           /\ \E m \in 1..Len(QuotedRows(i, ExpOf(i, k))) :
                  Val(QuotedRows(i, ExpOf(i, k))[m].strike) = Val(task[i].price)

-----------------------------------------------------------------------------
(* C6 *)

\* cushionPercent of a candidate, as a distance in mills from the price of
\* the scan (the price is the same for every candidate of a ticker): price -
\* strike for calls and OTM puts, strike - price for ITM puts
cushion_percent(i, k) ==
    IF task[i].flags.is_put /\ task[i].flags.is_itm_put
    THEN Ev(i, k).strike - Val(task[i].price)
    ELSE Val(task[i].price) - Ev(i, k).strike

\* candidate j has the higher roiPercent = juicePerContract /
\* collateralPerContract * 100 than candidate k (both per-contract amounts are
\* multiples of 100, and the ratios are compared per share)
HigherRoi(i, j, k) ==
    (Ev(i, j).juice_con \div 100) * (CollateralPerContract(i, k) \div 100)
        > (Ev(i, k).juice_con \div 100) * (CollateralPerContract(i, j) \div 100)

EqualRoi(i, j, k) ==
    (Ev(i, j).juice_con \div 100) * (CollateralPerContract(i, k) \div 100)
        = (Ev(i, k).juice_con \div 100) * (CollateralPerContract(i, j) \div 100)

\* C6 as stated: the result scan returns is the qualifying candidate with the
\* highest roiPercent, and among candidates of equal roiPercent the one with
\* the higher cushionPercent.
C6_BestRoiThenCushion ==
    \A i \in DOMAIN task :
        HasResult(i) =>
            \E k \in Accepted(i) :
                /\ ResOf(i, k) = Result(i)
                /\ \A j \in Accepted(i) :
                       /\ ~HigherRoi(i, j, k)
                       /\ EqualRoi(i, j, k) =>
                              cushion_percent(i, j) <= cushion_percent(i, k)

\* C6 amended: scan keeps exactly one candidate per ticker: the first
\* qualifying candidate, in the order of evaluation, whose roiPercent rounded
\* to two decimals is the highest; a later candidate of equal rounded
\* roiPercent does not replace it, whatever its cushionPercent.  No Match is
\* returned only when no candidate qualified.
C6_FirstBestRoundedRoi ==
    \A i \in DOMAIN task :
        /\ HasResult(i) =>
            \E k \in Accepted(i) :
                /\ ResOf(i, k) = Result(i)
                /\ ResOf(i, k).TotalReturnPct = RoundedRoi(i, k)
                /\ \A j \in Accepted(i) : RoundedRoi(i, j) <= RoundedRoi(i, k)
                /\ \A j \in Accepted(i) : j < k => RoundedRoi(i, j) < RoundedRoi(i, k)
        /\ (task[i].pc = "returned" /\ ~HasResult(i)) =>
               \/ Accepted(i) = {}
               \/ Val(Val(task[i].ret).d).KilledBy = "Exception"
        /\ InResults(task[i].t) <= 1

\* C6 witness: a scan has returned the earlier of two qualifying candidates
\* of equal roiPercent, the later one having the higher cushionPercent.
C6_Witness ==
    \E i \in DOMAIN task : \E k, j \in Accepted(i) :
        /\ HasResult(i)
        /\ ResOf(i, k) = Result(i)
        /\ k < j
        /\ EqualRoi(i, j, k)
        /\ cushion_percent(i, j) > cushion_percent(i, k)

-----------------------------------------------------------------------------
(* C7 *)

\* C7 as stated: in the Deep ITM mode the returned strike is the highest
\* admissible strike of the chain of its expiration, in the Standard OTM mode
\* the lowest strike above the price.
C7_NearestAdmissibleStrike ==
    cfg.mode \in {MODE_DEEP_ITM, MODE_STANDARD} =>
        \A i \in DOMAIN task : \A k \in Accepted(i) :
            (HasResult(i) /\ ResOf(i, k) = Result(i)) =>
                LET rows == QuotedRows(i, ExpOf(i, k))
                    price == Val(task[i].price)
                IN  \A m \in 1..Len(rows) :
                        Admissible(Val(rows[m].strike), price) =>
                            Abs(Ev(i, k).strike - price)
                                <= Abs(Val(rows[m].strike) - price)

\* C7 amended: in the Deep ITM and Standard OTM modes every admissible strike
\* of an examined chain is evaluated, in the order of the chain, and the
\* returned strike is an admissible strike of the chain of its expiration; an
\* admissible strike of that chain nearer to the price is passed over only
\* when it failed a contract filter or its rounded roiPercent is not higher.
C7_BestAdmissibleStrike ==
    cfg.mode \in {MODE_DEEP_ITM, MODE_STANDARD} =>
        \A i \in DOMAIN task :
            LET price == Val(task[i].price)
                admitted(row) == Admissible(Val(row.strike), price)
            IN  /\ \A n \in Examined(i) :
                       EvaluatedStrikes(i, n, 1)
                           = StrikesOf(SelectSeq(QuotedRows(i, n), admitted))
                /\ \A k \in Accepted(i) :
                       (HasResult(i) /\ ResOf(i, k) = Result(i)) =>
                           /\ \E m \in 1..Len(QuotedRows(i, ExpOf(i, k))) :
                                  /\ admitted(QuotedRows(i, ExpOf(i, k))[m])
                                  /\ Val(QuotedRows(i, ExpOf(i, k))[m].strike)
                                         = Ev(i, k).strike
                           /\ \A j \in EvalsOf(i, ExpOf(i, k)) :
                                  Abs(Ev(i, j).strike - price)
                                      < Abs(Ev(i, k).strike - price)
                                  => \/ j \notin Accepted(i)
                                     \/ RoundedRoi(i, j) <= RoundedRoi(i, k)

\* C7 witness: a Standard OTM scan has returned a strike although a lower
\* strike above the price of the same chain qualified as well.
C7_Witness ==
    /\ cfg.mode = MODE_STANDARD
    /\ \E i \in DOMAIN task : \E k, j \in Accepted(i) :
           /\ HasResult(i)
           /\ ResOf(i, k) = Result(i)
           /\ task[i].evals[j].exp = task[i].evals[k].exp
           /\ Ev(i, j).strike > Val(task[i].price)
           /\ Ev(i, j).strike < Ev(i, k).strike

-----------------------------------------------------------------------------
(* C8, C9, C10 *)

\* intrinsic value per share of the k-th row task i evaluated: max(price -
\* strike, 0) for a call, max(strike - price, 0) for a put
IntrinsicValue(i, k) ==
    IF cfg.mode \in {MODE_CSP_OTM, MODE_CSP_ITM}
    THEN Max(Ev(i, k).strike - Val(task[i].price), 0)
    ELSE Max(Val(task[i].price) - Ev(i, k).strike, 0)

\* extrinsic value per share: max(premium - intrinsic, 0)
ExtrinsicValue(i, k) == Max(Ev(i, k).total_prem - IntrinsicValue(i, k), 0)

\* C8: the juice of every accepted candidate follows the policy table: in the
\* Deep ITM Covered Call and Cash Secured Put ITM modes it is the extrinsic
\* value only, in the Standard OTM, ATM and Cash Secured Put OTM modes the
\* full premium, also for a strike equal to the price; the result carries it
\* per contract times the contracts.
C8_JuicePolicy ==
    \A i \in DOMAIN task : \A k \in Accepted(i) :
        /\ cfg.mode \in {MODE_DEEP_ITM, MODE_CSP_ITM} =>
               Ev(i, k).juice_val = ExtrinsicValue(i, k)
        /\ cfg.mode \in {MODE_STANDARD, MODE_CLOSEST, MODE_CSP_OTM} =>
               Ev(i, k).juice_val = Ev(i, k).total_prem
        /\ ResOf(i, k).TotalJuice = Ev(i, k).juice_val * 100 * ResOf(i, k).Contracts

\* C8 witness: a Deep ITM scan has returned a result after accepting both a
\* strike equal to the price and a strike in the money, whose juice is less
\* than its premium.
C8_Witness ==
    /\ cfg.mode = MODE_DEEP_ITM
    /\ \E i \in DOMAIN task : \E k, j \in Accepted(i) :
           /\ HasResult(i)
           /\ Ev(i, k).strike = Val(task[i].price)
           /\ Ev(i, j).strike < Val(task[i].price)
           /\ Ev(i, j).juice_val < Ev(i, j).total_prem

\* C9: no accepted candidate, in any mode, is in the money (intrinsic > 0)
\* with an extrinsic value of 0.05 dollars per share or less.
C9_NoItmTrap ==
    \A i \in DOMAIN task : \A k \in Accepted(i) :
        ~(IntrinsicValue(i, k) > 0 /\ ExtrinsicValue(i, k) <= 50)

\* C9 witness: a scan has returned an ITM result after rejecting an ITM row
\* whose extrinsic value is exactly 0.05 dollars.
C9_Witness ==
    \E i \in DOMAIN task :
        /\ HasResult(i)
        /\ Result(i).Intrinsic > 0
        /\ \E k \in Split(i) :
               /\ k \notin Accepted(i)
               /\ IntrinsicValue(i, k) > 0
               /\ ExtrinsicValue(i, k) = 50

\* C10: for every evaluated contract intrinsic = max(price - strike, 0) for
\* calls and max(strike - price, 0) for puts, extrinsic = max(premium -
\* intrinsic, 0) >= 0, and an accepted result carries these values and the
\* premium (per contract of 100 shares).
C10_IntrinsicExtrinsic ==
    \A i \in DOMAIN task :
        /\ \A k \in Split(i) :
               /\ Ev(i, k).intrinsic = IntrinsicValue(i, k)
               /\ Ev(i, k).extrinsic = ExtrinsicValue(i, k)
               /\ Ev(i, k).extrinsic >= 0
        /\ \A k \in Accepted(i) :
               /\ ResOf(i, k).Intrinsic = IntrinsicValue(i, k) * 100
               /\ ResOf(i, k).Extrinsic = ExtrinsicValue(i, k) * 100
               /\ ResOf(i, k).TotalPrem = Ev(i, k).total_prem * 100

\* C10 witness: a put scan has returned an ITM result and evaluated a row
\* whose premium is below its intrinsic value, the extrinsic value being 0.
C10_Witness ==
    /\ cfg.mode = MODE_CSP_ITM
    /\ \E i \in DOMAIN task :
           /\ HasResult(i)
           /\ Result(i).Intrinsic > 0
           /\ \E k \in Split(i) :
                  /\ Ev(i, k).total_prem < IntrinsicValue(i, k)
                  /\ Ev(i, k).extrinsic = 0

-----------------------------------------------------------------------------
(* C11 *)

\* the diag scan returned for task i, and its KilledBy
DiagOf(i) == Val(Val(task[i].ret).d)

KilledBy(i) == DiagOf(i).KilledBy

Returned(i) == task[i].pc = "returned"

\* the price the provider has for ticker t is missing or zero
NoPrice(t) ==
    IsNone(get_live_price(market[t])) \/ Val(get_live_price(market[t])) = 0

\* the price the provider has for ticker t lies in the configured range
InRange(t) ==
    /\ ~NoPrice(t)
    /\ cfg.price_range[1] * 1000 <= Val(get_live_price(market[t]))
    /\ Val(get_live_price(market[t])) <= cfg.price_range[2] * 1000

\* C11 as stated: for every ticker the price comes first: a missing or zero
\* price is recorded as No Price, a price outside the range as Price Range,
\* in both cases no expiration list or chain is fetched; with a valid price
\* in range the expiration list is fetched and an empty one is recorded as
\* No Options.
C11_QuoteFirst ==
    \A i \in DOMAIN task : Returned(i) =>
        LET t == task[i].t
        IN  /\ NoPrice(t) => KilledBy(i) = "No Price"
            /\ ~NoPrice(t) /\ ~InRange(t) => KilledBy(i) = "Price Range"
            /\ ~InRange(t) => task[i].calls = <<"tk.info", "get_live_price">>
            /\ InRange(t) /\ options_of(market[t]) = <<>> =>
                   /\ KilledBy(i) = "No Options"
                   /\ task[i].calls = <<"tk.info", "get_live_price", "tk.options">>

\* C11 amended: scan first fetches tk.info and applies the ETF-only and
\* fundamentals filters, which stop a ticker as ETF Only or Fundamentals
\* before any price is fetched.  For a ticker that passes them the price is
\* fetched next: a missing or zero price is recorded as No Price, a price
\* outside the range as Price Range, in both cases nothing more is fetched;
\* only with a valid price in range is the expiration list fetched, an empty
\* one is recorded as No Options, and chains are fetched after it only.
C11_FiltersThenQuote ==
    \A i \in DOMAIN task :
        LET t == task[i].t
            calls == task[i].calls
        IN  /\ \A k \in 1..Len(calls) :
                   /\ calls[k] = "get_live_price" => k = 2 /\ calls[1] = "tk.info"
                   /\ calls[k] = "tk.options" => k = 3 /\ InRange(t)
                   /\ calls[k] = "tk.option_chain" => k > 3 /\ calls[3] = "tk.options"
            /\ Returned(i) /\ KilledBy(i) \in {"ETF Only", "Fundamentals"} =>
                   calls = <<"tk.info">>
            /\ Returned(i) /\ KilledBy(i) \notin {"ETF Only", "Fundamentals"} =>
                   /\ NoPrice(t) => KilledBy(i) = "No Price"
                   /\ ~NoPrice(t) /\ ~InRange(t) => KilledBy(i) = "Price Range"
                   /\ ~InRange(t) => calls = <<"tk.info", "get_live_price">>
                   /\ InRange(t) /\ options_of(market[t]) = <<>> =>
                          /\ KilledBy(i) = "No Options"
                          /\ calls = <<"tk.info", "get_live_price", "tk.options">>

\* C11 witness: a batch has returned with one ticker stopped at an
\* out-of-range price and one at its empty expiration list, and no chain was
\* fetched for either.
C11_Witness ==
    /\ returned
    /\ \E i, j \in DOMAIN task :
           /\ KilledBy(i) = "Price Range"
           /\ KilledBy(j) = "No Options"
           /\ task[i].calls = <<"tk.info", "get_live_price">>

-----------------------------------------------------------------------------
(* C12 *)

\* the expiration loop of scan run to its return
RECURSIVE scan_loop(_)
scan_loop(f) ==
    IF f.pc # "loop" THEN f
    ELSE IF f.k > Len(f.opts) THEN after_loop(f)
    ELSE scan_loop(after_expiration(f, f.opts[f.k]))

\* scan(t) run alone on what the provider has for t: the pair it returns
scan_alone(t) ==
    LET m == market[t]
        a == after_info(QueuedFrame(t), m)
        b == IF a.pc = "price" THEN after_price(a, get_live_price(m)) ELSE a
        c == IF b.pc = "options" THEN after_options(b, options_of(m)) ELSE b
    IN  scan_loop(c).ret

\* the provider data of ticker t raise inside the loop of scan, outside its
\* inner handlers
RaisesInside(t) ==
    /\ market[t].options.kind = "ok"
    /\ \E k \in 1..Len(market[t].options.exps) :
           LET e == market[t].options.exps[k]
           IN  /\ e.chain.kind = "ok"
               /\ "malformed" \in {e.chain.calls.kind, e.chain.puts.kind}

\* no exception has left scan: every task is queued, inside scan or returned
NothingEscaped ==
    \A i \in DOMAIN task : task[i].pc \in {"queued", "price", "options", "loop", "returned"}

\* every returned task returned what scan returns for its ticker alone, and
\* an exception is recorded for that ticker with no result
EachAsAlone ==
    \A i \in DOMAIN task : Returned(i) =>
        /\ task[i].ret = scan_alone(task[i].t)
        /\ KilledBy(i) = "Exception" =>
               /\ RaisesInside(task[i].t)
               /\ IsNone(Val(task[i].ret).r)
               /\ DiagOf(i).Ticker = task[i].t

\* what scan_all returned is what the tickers give alone, in list order
BatchAsAlone ==
    returned =>
        LET outs == [i \in 1..Len(tickers) |-> Val(scan_alone(tickers[i]))]
        IN  /\ results = collect_results(outs)
            /\ diags = collect_diags(outs)

\* C12: no exception raised while a ticker is scanned leaves scan: it becomes
\* a failure record of that ticker only, the outcome of every ticker is what
\* scan gives for it alone (so it is the same without the failing ticker),
\* and scan_all, once called, returns.
C12_FailuresIsolated ==
    /\ [](NothingEscaped /\ EachAsAlone /\ BatchAsAlone)
    /\ (script = "scan_all") ~> returned

\* C12 witness: scan_all has returned for a batch whose first ticker raised
\* inside the expiration loop and whose second ticker has its result.
C12_Witness ==
    /\ returned
    /\ Len(tickers) = 2
    /\ RaisesInside(tickers[1])
    /\ diags = <<Val(Val(task[1].ret).d)>>
    /\ diags[1].KilledBy = "Exception"
    /\ Len(results) = 1
    /\ results[1].RawT = tickers[2]

-----------------------------------------------------------------------------
(* C13 *)

\* C13: scan_all, once called, returns, also when a provider call of one
\* ticker never answers: the call is abandoned after a timeout and the ticker
\* gets a failure record.
C13_ScanAllReturns == (script = "scan_all") ~> returned

-----------------------------------------------------------------------------
(* C14 *)

\* a pool thread takes a step of scan for some ticker
WorkerStep ==
    \E i \in DOMAIN task :
        \/ ScanInfo(i) \/ ScanPrice(i) \/ ScanOptions(i)
        \/ ScanExpiration(i) \/ ScanReturn(i)

\* the records ticker t has in the results of scan_all
RecordsOf(t) == {k \in DOMAIN results : results[k].RawT = t}

\* C14: under every interleaving a worker step leaves results, diags and the
\* session as they are, both lists stay empty until the calling thread
\* collects after every task has returned, and then each ticker has one record
\* in results when its scan returned one and none when it failed.
C14_WorkersOnlyReturn ==
    /\ [][WorkerStep => UNCHANGED <<results, diags, session>>]_vars
    /\ [](script = "scan_all" => results = <<>> /\ diags = <<>>)
    /\ [](returned =>
             \A i \in DOMAIN task :
                 Cardinality(RecordsOf(task[i].t)) = IF KilledBy(i) = "" THEN 1 ELSE 0)

\* C14 witness: a batch of two tickers has returned one record for the ticker
\* that succeeded and none for the one that failed.
C14_Witness ==
    /\ returned
    /\ Len(tickers) = 2
    /\ Cardinality(RecordsOf(tickers[1])) = 1
    /\ KilledBy(2) # ""
    /\ RecordsOf(tickers[2]) = {}
    /\ Len(results) = 1

-----------------------------------------------------------------------------
(* C15 *)

\* the sidebar globals are not assigned while scan_all runs
ConfigHeld == script = "scan_all" => cfg' = cfg

\* the flags a task works with are those of the mode global
FlagsOfMode ==
    \A i \in DOMAIN task : task[i].flags # NoFlags => task[i].flags = _mode_flags

\* a task that has returned took its configuration from the module globals
ReadGlobals(i) == Returned(i) => "etf_only" \in task[i].globals_read

\* C15 as stated: every ticker of a run is evaluated under one configuration,
\* which is captured when the scan starts and passed to the tasks, so that no
\* task reads a module global.
C15_ConfigPassedToTasks ==
    script = "scan_all" =>
        /\ FlagsOfMode
        /\ \A i \in DOMAIN task : task[i].globals_read = {}

\* C15 amended: every ticker of a run is evaluated under one configuration:
\* the tasks read the module globals the sidebar assigned, each when it
\* needs it, and no global is assigned between the call of scan_all and its
\* return.
C15_GlobalsHeldThroughScan ==
    /\ [][ConfigHeld]_vars
    /\ [](script = "scan_all" => FlagsOfMode /\ \A i \in DOMAIN task : ReadGlobals(i))

\* C15 witness: in a scan after a rerun of the script two tasks have returned,
\* and both have read the goal and the collateral globals while they
\* evaluated a row.
C15_Witness ==
    /\ script = "scan_all"
    /\ session.results_master # <<>>
    /\ Len(task) = 2
    /\ \A i \in DOMAIN task :
           /\ Returned(i)
           /\ {"mode", "goal_amt"} \subseteq task[i].globals_read
           /\ task[i].globals_read \cap {"acct", "cash_avail"} # {}

-----------------------------------------------------------------------------
(* C16 *)

\* C16: in neither dashboard is a scan under way while the capital or the
\* income goal is 0 or less: juicebox_pro scans with an account value and a
\* goal above 0, and the Deep Scanner of income_bot with a capital and a
\* weekly target above 0.
C16_InvalidConfigRejected ==
    /\ script = "scan_all" => cfg.acct > 0 /\ cfg.goal_amt > 0
    /\ bot.pc = "scanning" => bot.cfg.capital > 0 /\ bot.cfg.weekly_target > 0

-----------------------------------------------------------------------------
(* C17 *)

\* the answer 0.5 of calculate_pop
HALF == [kind |-> "value", permille |-> 500]

\* C17: called with a volatility of 0 or less, or with 0 days or fewer,
\* calculate_pop returns exactly 0.5 and raises nothing, whatever the price,
\* the strike and the strategy.
C17_PopDegenerate ==
    ~IsNone(pop.out) /\ (pop.iv <= 0 \/ pop.days <= 0) => Val(pop.out) = HALF

\* C17 witness: calculate_pop has returned 0.5 for a call with a positive
\* volatility, no day left and a strike of 0, which would divide by zero
\* past the guard.
C17_Witness ==
    /\ pop.out = Some(HALF)
    /\ pop.iv > 0
    /\ pop.days = 0
    /\ pop.strike = 0

-----------------------------------------------------------------------------
(* C18 *)

\* the task has entered the expiration loop of scan
InLoop(i) ==
    KilledBy(i) \notin {"ETF Only", "Fundamentals", "No Price", "Price Range", "No Options"}

\* C18: a ticker that entered the expiration loop returns only after every
\* expiration was examined, whatever an expiration gave; it is recorded as
\* No Match exactly when no candidate was accepted, and when a candidate was
\* accepted from some expiration the ticker returns a result.
C18_ExpirationsSkippedBestKept ==
    \A i \in DOMAIN task : Returned(i) /\ InLoop(i) =>
        /\ task[i].k > Len(task[i].opts)
        /\ KilledBy(i) = "No Match" <=> Accepted(i) = {}
        /\ Accepted(i) # {} => ~IsNone(Val(task[i].ret).r)

-----------------------------------------------------------------------------
(* C19 *)

\* what the tasks of the run that has just finished returned
Outs == [i \in 1..Len(tickers) |-> Val(task[i].ret)]

\* the step in which scan_all returns to the run handler
RunCompletes == script = "scan_all" /\ script' = "idle"

\* the step in which the ticker loop of the Deep Scanner ends
DeepScanCompletes == bot.pc = "scanning" /\ bot'.pc = "idle"

\* C19: a run that completes assigns to the session exactly what it produced,
\* so that nothing of an earlier run is left, and no other step (a rerun of
\* the script without the button, a change of the provider's data, a step of
\* a running scan) changes what the session holds; the same for the list
\* deep_scan of income_bot.
C19_SessionHoldsLastRun ==
    /\ [][RunCompletes =>
             /\ session'.results_master = collect_results(Outs)
             /\ session'.diags_master = collect_diags(Outs)]_vars
    /\ [][~RunCompletes => session' = session]_vars
    /\ [](returned => session = [results_master |-> results, diags_master |-> diags])
    /\ [][DeepScanCompletes => deep_scan' = Some(bot.results)]_vars
    /\ [][~DeepScanCompletes => deep_scan' = deep_scan]_vars

\* C19 witness: a later run of juicebox_pro (its price came from the cache an
\* earlier run filled) has completed, and the session holds exactly its one
\* result and no diagnostics.
C19_Witness ==
    /\ returned
    /\ Len(task) = 1
    /\ task[1].price_src = "cache"
    /\ ~IsNone(Val(task[1].ret).r)
    /\ session.results_master = <<Val(Val(task[1].ret).r)>>
    /\ session.diags_master = <<>>

-----------------------------------------------------------------------------
(* C20 *)

\* scan(t) run alone on what the provider has for t, get_live_price having
\* given answer: the pair it returns
scan_priced(t, answer) ==
    LET m == market[t]
        a == after_info(QueuedFrame(t), m)
        b == IF a.pc = "price" THEN after_price(a, answer) ELSE a
        c == IF b.pc = "options" THEN after_options(b, options_of(m)) ELSE b
    IN  scan_loop(c).ret

\* the step in which task i gets its price
PriceStep(i) == i \in DOMAIN task' /\ task[i].pc = "price" /\ task'[i].pc # "price"

\* C20 as stated: the outcome of a scan for a ticker is a function of what the
\* provider has during that scan and of the configuration only: the price a
\* task works with is the provider's price, so a price that moved since an
\* earlier scan is the one used, and what the task returns is what scan
\* gives for the provider's data alone.
C20_OutcomeOfProviderData ==
    script = "scan_all" =>
        \A i \in DOMAIN task :
            /\ task[i].price_src # "" => task[i].price = get_live_price(market[task[i].t])
            /\ Returned(i) => task[i].ret = scan_alone(task[i].t)

\* C20 amended: the price a task works with is the answer get_live_price has
\* cached for the ticker when an earlier call left one that has not expired,
\* and the provider's price otherwise, whose answer is then cached; what the
\* task returns is a function of that price, of the provider's information
\* and chains during the scan and of the configuration.
C20_OutcomeOfCachedPrice ==
    /\ [][\A i \in DOMAIN task : PriceStep(i) =>
             LET t == task[i].t
                 answer == IF cached(t) THEN Val(price_cache[t])
                           ELSE get_live_price(market[t])
             IN  /\ task'[i].price = answer
                 /\ price_cache'[t] = Some(answer)]_vars
    /\ [](script = "scan_all" =>
             \A i \in DOMAIN task : Returned(i) =>
                 task[i].ret = IF task[i].price_src = "cache"
                               THEN scan_priced(task[i].t, task[i].price)
                               ELSE scan_alone(task[i].t))

\* C20 witness: a task has returned a result priced at the answer an earlier
\* scan cached, while the provider has another price for the ticker.
C20_Witness ==
    /\ script = "scan_all"
    /\ \E i \in DOMAIN task :
           /\ Returned(i)
           /\ task[i].price_src = "cache"
           /\ task[i].price # get_live_price(market[task[i].t])
           /\ ~IsNone(Val(task[i].ret).r)
           /\ Val(Val(task[i].ret).r).Price = Val(task[i].price)

-----------------------------------------------------------------------------
(* C21 *)

\* C21: for every accepted candidate, the goal being above 0, the Total Juice
\* of its record is the juice per contract times Contracts, rounded to cents,
\* and is at least the goal; the record carries the goal-met icon exactly when
\* the juice of one contract is at least the goal, and then Contracts is 1.
C21_TotalJuiceMeetsGoal ==
    \A i \in DOMAIN task : \A k \in Accepted(i) :
        LET r == ResOf(i, k)
            juice_con == Ev(i, k).juice_con
        IN  cfg.goal_amt > 0 =>
                /\ r.TotalJuice = Round2(juice_con * r.Contracts)
                /\ r.TotalJuice >= cfg.goal_amt
                /\ r.Ticker.goal_met_icon <=> juice_con >= cfg.goal_amt
                /\ r.Ticker.goal_met_icon => r.Contracts = 1

\* C21 witness: one scan has accepted a candidate whose single contract
\* meets the goal, marked with the icon and carried with 1 contract, and a
\* candidate that needs more than one contract to reach the goal.
C21_Witness ==
    \E i \in DOMAIN task : \E k, l \in Accepted(i) :
        /\ ResOf(i, k).Ticker.goal_met_icon
        /\ ResOf(i, k).Contracts = 1
        /\ ~ResOf(i, l).Ticker.goal_met_icon
        /\ ResOf(i, l).Contracts > 1
        /\ ResOf(i, l).TotalJuice >= cfg.goal_amt

====
